---- MODULE Spec2Model ----
(***************************************************************************)
(* A model of the two notebooks of the repository:                         *)
(*   src/Solutions-02.ipynb              make_data, log_likelihood, the    *)
(*                                       two priors, contour_levels,       *)
(*                                       plot_results                      *)
(*   src/03-Bayesian-Modeling-With-MCMC.ipynb                              *)
(*                                       make_data, log_prior,             *)
(*                                       log_likelihood, log_posterior,    *)
(*                                       make_data_scatter, the order of   *)
(*                                       its cells around the sampler      *)
(*                                       runs, and the Metropolis-Hastings *)
(*                                       procedure its text describes      *)
(*                                                                         *)
(* Numbers.  A float is modelled as a record [k, v]: k is "fin", "+inf",   *)
(* "-inf" or "nan", and v is the integer value of a finite number.  The    *)
(* special values follow IEEE 754 as numpy applies it (inf - inf = nan,    *)
(* 0/0 = nan, x/0 = inf, exp(-inf) = 0, nan propagates, a comparison with  *)
(* nan is false).  Finite results saturate to +-inf beyond MaxFloat, the   *)
(* way a double overflows beyond 1.8e308.                                  *)
(*   - data (x, y, dy) and parameters (theta) are whole numbers;           *)
(*   - np.log returns fixed point in units of 1/LnScale (LnFix);           *)
(*   - log-probabilities (log_likelihood, the priors, log_posterior, the   *)
(*     cells of log_P1 / log_P2) are in units of 1/(2*LnScale), so that    *)
(*     the factors -0.5 and -1.5 of the source are exact;                  *)
(*   - densities (the cells of P1 / P2) are in units of 1/PScale, so the   *)
(*     density 1.0 is PScale;                                              *)
(*   - the cumulative fractions of contour_levels are exact rationals.     *)
(***************************************************************************)
EXTENDS Integers, Sequences, FiniteSets, TLC

VARIABLES
    gstate,   \* state of the global generator np.random
    calls,    \* history: the generator calls and global draws made, with their results
    data,     \* the notebook globals x, y, dy
    plot,     \* what the last plot_results call computed
    cl,       \* a contour_levels call: its argument and what it computed
    pri,      \* calls of the prior / posterior functions on one theta
    mh,       \* a run of the Metropolis-Hastings procedure: its chain and its steps
    nb        \* the MCMC notebook being executed: its cells, its globals, the sampler

vars == <<gstate, calls, data, plot, cl, pri, mh, nb>>

\* ---------------------------------------------------------------- bounds

\* Largest finite magnitude of the modelled floats.
MaxFloat == 1000000000
\* Fixed-point resolution of np.log: LnFix returns units of 1/LnScale.
LnScale == 100
\* Fixed-point resolution of a density: 1.0 is PScale.
PScale == 1000
\* Number of samples np.linspace returns per axis (the source's default is 50).
GridN == 2
\* Largest sample count N passed to the data generators.
MaxN == 2
\* Largest number of events (generator calls, global draws) recorded in one history.
MaxCalls == 4

\* Largest number of iterations of step 4 of the Metropolis-Hastings procedure.
MaxIter == 4
\* Number of equal cells of [0, 1) the uniform random number r is drawn from.
RSteps == 4

\* Steps of the first sampler run (the source's run_mcmc(starting_guesses, 200)).
BurnSteps == 2
\* Steps of the second sampler run (the source's run_mcmc(pos, 1000)).
RunSteps == 3

\* ------------------------------------------------------- program constants

\* The hard bound of the priors: np.abs(theta) < 1000.
PriorBound == 1000

\* ----------------------------------------------------------------- floats

Fin(n) == [k |-> "fin", v |-> n]
PosInf == [k |-> "+inf", v |-> 0]
NegInf == [k |-> "-inf", v |-> 0]
NaN == [k |-> "nan", v |-> 0]

IsFin(a) == a.k = "fin"
IsNaN(a) == a.k = "nan"

Abs(n) == IF n < 0 THEN -n ELSE n

\* A finite result, rounded to the float range.
Sat(n) == IF n > MaxFloat THEN PosInf ELSE IF n < -MaxFloat THEN NegInf ELSE Fin(n)

FNeg(a) ==
    CASE a.k = "fin" -> Fin(-a.v)
      [] a.k = "+inf" -> NegInf
      [] a.k = "-inf" -> PosInf
      [] OTHER -> NaN

FAdd(a, b) ==
    IF IsNaN(a) \/ IsNaN(b) THEN NaN
    ELSE IF IsFin(a) /\ IsFin(b) THEN Sat(a.v + b.v)
    ELSE IF IsFin(a) THEN b
    ELSE IF IsFin(b) THEN a
    ELSE IF a.k = b.k THEN a
    ELSE NaN

FSub(a, b) == FAdd(a, FNeg(b))

\* The sign of a float that is not nan: -1, 0 or 1.
Sign(a) ==
    CASE a.k = "+inf" -> 1
      [] a.k = "-inf" -> -1
      [] OTHER -> IF a.v > 0 THEN 1 ELSE IF a.v < 0 THEN -1 ELSE 0

FMul(a, b) ==
    IF IsNaN(a) \/ IsNaN(b) THEN NaN
    ELSE IF IsFin(a) /\ IsFin(b)
    THEN IF a.v = 0 \/ b.v = 0 THEN Fin(0)
         ELSE IF Abs(a.v) > MaxFloat \div Abs(b.v)
              THEN (IF Sign(a) * Sign(b) > 0 THEN PosInf ELSE NegInf)
              ELSE Fin(a.v * b.v)
    ELSE IF Sign(a) * Sign(b) = 0 THEN NaN
    ELSE IF Sign(a) * Sign(b) > 0 THEN PosInf
    ELSE NegInf

\* a < b; false when either is nan.
FLess(a, b) ==
    IF IsNaN(a) \/ IsNaN(b) THEN FALSE
    ELSE IF a.k = "-inf" THEN b.k # "-inf"
    ELSE IF a.k = "+inf" THEN FALSE
    ELSE IF b.k = "+inf" THEN TRUE
    ELSE IF b.k = "-inf" THEN FALSE
    ELSE a.v < b.v

\* 2^n for n >= 0.
RECURSIVE Pow2(_)
Pow2(n) == IF n <= 0 THEN 1 ELSE 2 * Pow2(n - 1)

\* floor(log2(n)) for n >= 1.
RECURSIVE Log2Floor(_)
Log2Floor(n) == IF n < 2 THEN 0 ELSE 1 + Log2Floor(n \div 2)

\* ln(2) in units of 1/LnScale.
Ln2 == (693 * LnScale) \div 1000

\* ln(n) for a whole n >= 1, in units of 1/LnScale: n = 2^e * f with f in [1, 2),
\* ln(n) = e * ln 2 + ln f, and ln f is interpolated linearly between ln 1 and ln 2.
\* Non-decreasing in n, and LnFix(1) = 0.
LnFix(n) ==
    LET e == Log2Floor(n)
    IN  e * Ln2 + ((n - Pow2(e)) * Ln2) \div Pow2(e)

\* np.log of a whole-number float, in units of 1/LnScale.
FLog(a) ==
    CASE a.k = "nan" -> NaN
      [] a.k = "+inf" -> PosInf
      [] a.k = "-inf" -> NaN
      [] OTHER -> IF a.v < 0 THEN NaN ELSE IF a.v = 0 THEN NegInf ELSE Fin(LnFix(a.v))

\* exp(d / (2*LnScale)) in units of 1/PScale, for a whole d: with -d = q * (2 ln 2) + r,
\* exp = 2^-q * 2^-(r / (2 ln 2)), the last factor interpolated linearly between 1
\* and 1/2.  Non-decreasing in d, ExpFix(0) = PScale, and it underflows to 0.
ExpFix(d) ==
    IF d <= 0
    THEN LET q == (-d) \div (2 * Ln2)
             r == (-d) % (2 * Ln2)
         IN  IF q >= 20 THEN 0 ELSE (PScale * (4 * Ln2 - r)) \div (4 * Ln2 * Pow2(q))
    ELSE LET q == d \div (2 * Ln2)
             r == d % (2 * Ln2)
         IN  IF q >= 10 THEN MaxFloat + 1
             ELSE (PScale * Pow2(q) * (2 * Ln2 + r)) \div (2 * Ln2)

\* np.exp of a log-probability (units of 1/(2*LnScale)), as a density.
FExp(a) ==
    CASE a.k = "nan" -> NaN
      [] a.k = "+inf" -> PosInf
      [] a.k = "-inf" -> Fin(0)
      [] OTHER -> Sat(ExpFix(a.v))

\* A sum that is undefined (nan) for the empty sequence, the way np.mean is.
RECURSIVE FSumEmptyNaN(_)
FSumEmptyNaN(s) ==
    IF s = <<>> THEN NaN
    ELSE IF Len(s) = 1 THEN s[1]
    ELSE FAdd(FSumEmptyNaN(SubSeq(s, 1, Len(s) - 1)), s[Len(s)])

\* np.sum of a sequence of floats (0 for the empty sequence).
RECURSIVE FSum(_)
FSum(s) == IF s = <<>> THEN Fin(0) ELSE FAdd(FSum(SubSeq(s, 1, Len(s) - 1)), s[Len(s)])

\* ----------------------------------------------------------------- priors

\* log_flat_prior without its else branch: every theta is accepted.
log_flat_prior_unbounded(theta) == Fin(0)

\* Solutions-02: log_flat_prior(theta).
log_flat_prior(theta) ==
    IF \A i \in DOMAIN theta : Abs(theta[i]) < PriorBound
    THEN Fin(0)
    ELSE NegInf

\* log_prior with the comparison np.abs(theta) <= 1000.
log_prior_inclusive(theta) ==
    IF \A i \in DOMAIN theta : Abs(theta[i]) <= PriorBound
    THEN Fin(0)
    ELSE NegInf

\* 03-Bayesian-Modeling-With-MCMC: log_prior(theta), the first definition.
log_prior(theta) ==
    IF \A i \in DOMAIN theta : Abs(theta[i]) < PriorBound
    THEN Fin(0)
    ELSE NegInf

\* log_symmetric_prior with the flat prior's test np.all(np.abs(theta) < 1000).
log_symmetric_prior_allbound(theta) ==
    IF \A i \in DOMAIN theta : Abs(theta[i]) < PriorBound
    THEN FMul(Fin(-3), FLog(FAdd(Fin(1), FMul(Fin(theta[2]), Fin(theta[2])))))
    ELSE NegInf

\* Solutions-02: log_symmetric_prior(theta) = -1.5 * log(1 + theta[1] ** 2), in
\* units of 1/(2*LnScale): -3 * LnFix.  (theta[0], theta[1] of the source are
\* theta[1], theta[2] here.)
log_symmetric_prior(theta) ==
    IF Abs(theta[1]) < PriorBound
    THEN FMul(Fin(-3), FLog(FAdd(Fin(1), FMul(Fin(theta[2]), Fin(theta[2])))))
    ELSE NegInf

\* a / b for whole-number floats, in units of 1/LnScale (numpy: x/0 = +-inf, 0/0 = nan).
FDiv(a, b) ==
    IF IsNaN(a) \/ IsNaN(b) THEN NaN
    ELSE IF ~IsFin(a) /\ ~IsFin(b) THEN NaN
    ELSE IF ~IsFin(b) THEN Fin(0)
    ELSE IF b.v = 0 THEN (IF Sign(a) = 0 THEN NaN ELSE IF Sign(a) > 0 THEN PosInf ELSE NegInf)
    ELSE IF ~IsFin(a) THEN (IF Sign(a) * Sign(b) > 0 THEN PosInf ELSE NegInf)
    ELSE LET q == Abs(a.v) \div Abs(b.v)
             r == Abs(a.v) % Abs(b.v)
             m == FAdd(FMul(Fin(q), Fin(LnScale)), Fin((r * LnScale) \div Abs(b.v)))
         IN  IF Sign(a) * Sign(b) < 0 THEN FNeg(m) ELSE m

\* ------------------------------------------------------------- likelihood

\* np.log(2 * np.pi * dy ** 2) for one dy, in units of 1/LnScale; 2*pi is 710/113.
LogTwoPiSq(d) == FSub(FLog(FMul(Fin(710), FMul(Fin(d), Fin(d)))), Fin(LnFix(113)))

\* y_model = theta[0] + theta[1] * x for one x.
y_model(theta, xi) == FAdd(Fin(theta[1]), FMul(Fin(theta[2]), Fin(xi)))

\* (y - y_model) ** 2 for one observation.
SqResidual(theta, xi, yi) ==
    LET r == FSub(Fin(yi), y_model(theta, xi))
    IN  FMul(r, r)

\* log_likelihood with the sign of its factor -0.5 dropped.
log_likelihood_unsigned(theta, x, y, dy) ==
    FSum([i \in 1..Len(x) |->
        FAdd(LogTwoPiSq(dy[i]),
             FDiv(SqResidual(theta, x[i], y[i]), FMul(Fin(dy[i]), Fin(dy[i]))))])

\* Both notebooks: log_likelihood(theta, x, y, dy) =
\*   -0.5 * np.sum(np.log(2 * np.pi * dy ** 2) + (y - y_model) ** 2 / dy ** 2)
\* in units of 1/(2*LnScale): the negated sum of terms held in units of 1/LnScale.
log_likelihood(theta, x, y, dy) ==
    FNeg(FSum([i \in 1..Len(x) |->
        FAdd(LogTwoPiSq(dy[i]),
             FDiv(SqResidual(theta, x[i], y[i]), FMul(Fin(dy[i]), Fin(dy[i]))))]))

\* 03-Bayesian-Modeling-With-MCMC: log_posterior(theta, x, y, dy).
log_posterior(theta, x, y, dy) == FAdd(log_prior(theta), log_likelihood(theta, x, y, dy))

\* -------------------------------------------------------- data generators

\* np.random.RandomState(rseed): the generator's state after seeding.
RandomState(rseed) == rseed % 16

\* One step of a generator (a full-period congruential generator stands for
\* numpy's Mersenne Twister: the next state is a function of the state alone).
RandNext(s) == (5 * s + 3) % 16

\* The state after n draws: RandNext applied n times (StepN(n) is that map, built by
\* halving n).
RECURSIVE StepN(_)
StepN(n) ==
    IF n <= 0 THEN [s \in 0..15 |-> s]
    ELSE LET h == StepN(n \div 2)
             hh == [s \in 0..15 |-> h[h[s]]]
         IN  IF n % 2 = 0 THEN hh ELSE [s \in 0..15 |-> RandNext(hh[s])]

RandAfter(s, n) == StepN(n)[s]

\* rand.rand(n) drawn from state s: n uniform numbers in [0, 1), as sixteenths.
rand(s, n) == [i \in 1..n |-> RandAfter(s, i)]

\* rand.randn(n) drawn from state s: n standard normal numbers, whole, in -2..2.
randn(s, n) == [i \in 1..n |-> (RandAfter(s, i) % 5) - 2]

\* floor(sqrt(n)) for n >= 0.
RECURSIVE SqrtFrom(_, _)
SqrtFrom(n, r) == IF (r + 1) * (r + 1) > n THEN r ELSE SqrtFrom(n, r + 1)
Sqrt(n) == SqrtFrom(n, 0)

\* make_data drawing from the global generator np.random instead of RandomState(rseed).
make_data_global(intercept, slope, N, dy, rseed) ==
    LET u == rand(gstate, N)
        g == randn(RandAfter(gstate, N), N)
        x == [i \in 1..N |-> (100 * u[i]) \div 16]
        y == [i \in 1..N |-> intercept + slope * x[i] + dy * g[i]]
    IN  [x |-> x, y |-> y, dy |-> [i \in 1..N |-> dy]]

\* Both notebooks: make_data(intercept, slope, N, dy, rseed).
make_data(intercept, slope, N, dy, rseed) ==
    LET s0 == RandomState(rseed)
        u == rand(s0, N)
        g == randn(RandAfter(s0, N), N)
        x == [i \in 1..N |-> (100 * u[i]) \div 16]
        y == [i \in 1..N |-> intercept + slope * x[i] + dy * g[i]]
    IN  [x |-> x, y |-> y, dy |-> [i \in 1..N |-> dy]]

\* 03-Bayesian-Modeling-With-MCMC: make_data_scatter(intercept, slope, scatter, N, dy,
\* rseed).  The source draws rand.rand(20) and rand.randn(20) whatever N is.
make_data_scatter(intercept, slope, scatter, N, dy, rseed) ==
    LET s0 == RandomState(rseed)
        u == rand(s0, 20)
        g == randn(RandAfter(s0, 20), 20)
        x == [i \in 1..20 |-> (100 * u[i]) \div 16]
        y == [i \in 1..20 |-> intercept + slope * x[i] + Sqrt(dy * dy + scatter * scatter) * g[i]]
    IN  [x |-> x, y |-> y, dy |-> [i \in 1..20 |-> dy]]

\* ---------------------------------------------------------- contour_levels

\* np.linspace(lo, hi) with GridN samples: lo + i * (hi - lo) / (GridN - 1), rounded
\* down to a whole number; the last sample is hi.
linspace(lo, hi) ==
    [i \in 1..GridN |-> IF GridN = 1 THEN lo ELSE lo + ((i - 1) * (hi - lo)) \div (GridN - 1)]

\* grid.ravel(): the rows of a 2D grid, one after the other.
RECURSIVE ravel(_)
ravel(grid) == IF grid = <<>> THEN <<>> ELSE Head(grid) \o ravel(Tail(grid))

\* The order np.sort sorts by: a < b, with nan after every number.
SortLess(a, b) == IF IsNaN(a) THEN FALSE ELSE IF IsNaN(b) THEN TRUE ELSE FLess(a, b)

\* s, sorted ascending, with v inserted.
RECURSIVE Insert(_, _)
Insert(s, v) ==
    IF s = <<>> THEN <<v>>
    ELSE IF SortLess(v, Head(s)) THEN <<v>> \o s
    ELSE <<Head(s)>> \o Insert(Tail(s), v)

\* np.sort(s): ascending.
RECURSIVE npsort(_)
npsort(s) == IF s = <<>> THEN <<>> ELSE Insert(npsort(Tail(s)), Head(s))

\* s[::-1].
Reverse(s) == [i \in 1..Len(s) |-> s[Len(s) + 1 - i]]

\* The running sums that leave the current element out: 0, s[0], s[0] + s[1], ...
cumsum_exclusive(s) == [i \in 1..Len(s) |-> FSum(SubSeq(s, 1, i - 1))]

\* np.cumsum(s).
RECURSIVE cumsum(_)
cumsum(s) ==
    IF s = <<>> THEN <<>>
    ELSE LET c == cumsum(SubSeq(s, 1, Len(s) - 1))
         IN  IF c = <<>> THEN <<s[1]>> ELSE Append(c, FAdd(c[Len(c)], s[Len(s)]))

\* An exact fraction n/d with d > 0 (a cumulative fraction or a target).
Rat(n, d) == [k |-> "fin", n |-> n, d |-> d]

\* a / b as an exact fraction, for the division np.cumsum(sorted_) / np.sum(sorted_).
RatDiv(a, b) ==
    IF IsNaN(a) \/ IsNaN(b) THEN NaN
    ELSE IF ~IsFin(a) /\ ~IsFin(b) THEN NaN
    ELSE IF ~IsFin(b) THEN Rat(0, 1)
    ELSE IF b.v = 0 THEN (IF Sign(a) = 0 THEN NaN ELSE IF Sign(a) > 0 THEN PosInf ELSE NegInf)
    ELSE IF ~IsFin(a) THEN (IF Sign(a) * Sign(b) > 0 THEN PosInf ELSE NegInf)
    ELSE IF b.v < 0 THEN Rat(-a.v, -b.v)
    ELSE Rat(a.v, b.v)

\* a/b < c/d for a, c >= 0 and b, d > 0, by the quotients and then the remainders
\* (no product is formed).
RECURSIVE FracLess(_, _, _, _)
FracLess(a, b, c, d) ==
    IF a \div b # c \div d THEN a \div b < c \div d
    ELSE IF c % d = 0 THEN FALSE
    ELSE IF a % b = 0 THEN TRUE
    ELSE FracLess(d, c % d, b, a % b)

\* p < t for a cumulative fraction p and a target t > 0; nan sorts after every number,
\* as in numpy's searchsorted.
RatLess(p, t) ==
    CASE p.k = "nan" -> FALSE
      [] p.k = "+inf" -> FALSE
      [] p.k = "-inf" -> TRUE
      [] OTHER -> IF p.n < 0 THEN TRUE ELSE FracLess(p.n, p.d, t.n, t.d)

\* np.array([0.68, 0.95, 0.997]) ** 2.
Targets ==
    LET sig == <<Rat(68, 100), Rat(95, 100), Rat(997, 1000)>>
    IN  [j \in 1..3 |-> Rat(sig[j].n * sig[j].n, sig[j].d * sig[j].d)]

\* np.searchsorted(a, v), side 'left', for one v: a binary search over [lo, hi) that
\* returns the 0-based insertion index.
RECURSIVE BinSearch(_, _, _, _)
BinSearch(a, v, lo, hi) ==
    IF lo >= hi THEN lo
    ELSE LET mid == lo + (hi - lo) \div 2
         IN  IF RatLess(a[mid + 1], v)
             THEN BinSearch(a, v, mid + 1, hi)
             ELSE BinSearch(a, v, lo, mid)

\* searchsorted returning the index after the insertion index.
searchsorted_next(a, v) == BinSearch(a, v, 0, Len(a)) + 1

searchsorted(a, v) == BinSearch(a, v, 0, Len(a))

\* sorted_ without the reversal [::-1].
SortedAsc(grid) == npsort(ravel(grid))

\* sorted_ = np.sort(grid.ravel())[::-1]
SortedDesc(grid) == Reverse(npsort(ravel(grid)))

\* pct without the division by np.sum(sorted_).
PctUnnormalized(sorted) ==
    LET c == cumsum(sorted)
    IN  [i \in 1..Len(sorted) |-> RatDiv(c[i], Fin(1))]

\* pct = np.cumsum(sorted_) / np.sum(sorted_)
Pct(sorted) ==
    LET c == cumsum(sorted)
        total == FSum(sorted)
    IN  [i \in 1..Len(sorted) |-> RatDiv(c[i], total)]

\* cutoffs = np.searchsorted(pct, np.array([0.68, 0.95, 0.997]) ** 2), 0-based.
Cutoffs(pct) == [j \in 1..3 |-> searchsorted(pct, Targets[j])]

\* Solutions-02: contour_levels(grid).  The record holds the locals and the outcome:
\* exc is "none" and levels is sorted_[cutoffs], or exc is "IndexError" when a cutoff
\* is not an index of sorted_.
contour_levels(grid) ==
    LET sorted == SortedDesc(grid)
        pct == Pct(sorted)
        cutoffs == Cutoffs(pct)
        inRange == \A j \in 1..3 : cutoffs[j] < Len(sorted)
    IN  [sorted |-> sorted, pct |-> pct, cutoffs |-> cutoffs,
         exc |-> IF inRange THEN "none" ELSE "IndexError",
         levels |-> IF inRange THEN [j \in 1..3 |-> sorted[cutoffs[j] + 1]] ELSE <<>>]

\* ------------------------------------------------------------ plot_results

\* np.max of a sequence of floats: the largest, or nan when one of them is nan.
RECURSIVE npmax(_)
npmax(s) ==
    IF Len(s) = 1 THEN s[1]
    ELSE LET m == npmax(Tail(s))
         IN  IF IsNaN(s[1]) \/ IsNaN(m) THEN NaN ELSE IF FLess(s[1], m) THEN m ELSE s[1]

\* log_P1 = [[log_likelihood([b, m], x, y, dy) + log_flat_prior([b, m])
\*            for m in slope_range] for b in intercept_range]
log_P1(d, intercept_range, slope_range) ==
    [i \in 1..Len(intercept_range) |-> [j \in 1..Len(slope_range) |->
        FAdd(log_likelihood(<<intercept_range[i], slope_range[j]>>, d.x, d.y, d.dy),
             log_flat_prior(<<intercept_range[i], slope_range[j]>>))]]

\* log_P2 with its loops exchanged: for b in intercept_range in the inner list.
log_P2_transposed(d, intercept_range, slope_range) ==
    [j \in 1..Len(slope_range) |-> [i \in 1..Len(intercept_range) |->
        FAdd(log_likelihood(<<intercept_range[i], slope_range[j]>>, d.x, d.y, d.dy),
             log_symmetric_prior(<<intercept_range[i], slope_range[j]>>))]]

\* log_P2 = [[log_likelihood([b, m], x, y, dy) + log_symmetric_prior([b, m])
\*            for m in slope_range] for b in intercept_range]
log_P2(d, intercept_range, slope_range) ==
    [i \in 1..Len(intercept_range) |-> [j \in 1..Len(slope_range) |->
        FAdd(log_likelihood(<<intercept_range[i], slope_range[j]>>, d.x, d.y, d.dy),
             log_symmetric_prior(<<intercept_range[i], slope_range[j]>>))]]

\* The normalization without the shift by the maximum: np.exp(log_P).
NormalizeNoShift(log_P) ==
    [i \in 1..Len(log_P) |-> [j \in 1..Len(log_P[i]) |-> FExp(log_P[i][j])]]

\* np.exp(log_P - np.max(log_P))
Normalize(log_P) ==
    LET top == npmax(ravel(log_P))
    IN  [i \in 1..Len(log_P) |-> [j \in 1..Len(log_P[i]) |-> FExp(FSub(log_P[i][j], top))]]

\* The grid whose contour levels are drawn over P1 (ax[0].contour).
LevelsGrid1(P1, P2) == P1

\* The grid whose contour levels are drawn over P2 (ax[1].contour): the source
\* passes contour_levels(P1).
LevelsGrid2(P1, P2) == P1

\* Solutions-02: plot_results(x, y, dy, slope_limits, intercept_limits), up to the
\* calls into matplotlib.  exc is the exception that leaves the function, or "none".
plot_results(d, slope_limits, intercept_limits) ==
    LET slope_range == linspace(slope_limits[1], slope_limits[2])
        intercept_range == linspace(intercept_limits[1], intercept_limits[2])
        P1 == Normalize(log_P1(d, intercept_range, slope_range))
        P2 == Normalize(log_P2(d, intercept_range, slope_range))
        lev1 == contour_levels(LevelsGrid1(P1, P2))
        lev2 == contour_levels(LevelsGrid2(P1, P2))
    IN  [called |-> TRUE, d |-> d,
         slope_range |-> slope_range, intercept_range |-> intercept_range,
         log_P1 |-> log_P1(d, intercept_range, slope_range),
         log_P2 |-> log_P2(d, intercept_range, slope_range), P1 |-> P1, P2 |-> P2,
         lev1 |-> lev1, lev2 |-> lev2,
         exc |-> IF lev1.exc # "none" THEN lev1.exc ELSE lev2.exc]

\* ------------------------------------------- the Metropolis-Hastings sampler

\* The parameter values of the chain.
MHPoints == 0..2

\* Step 1, "define a posterior p(theta | D, I)": a positive density on MHPoints.
Posterior(theta) == <<1, 2, 4>>[theta + 1]

\* Step 3, "choose a starting point theta_0".
Theta0 == 0

\* Step 4.2, the acceptance ratio a = p(theta_{i+1} | D, I) / p(theta_i | D, I).
AcceptanceRatio(new, cur) == Rat(Posterior(new), Posterior(cur))

\* The uniform random number r of step 4.4: the midpoints of RSteps equal cells of
\* [0, 1), each as likely as the others.
RDraws == {Rat(2 * k + 1, 2 * RSteps) : k \in 0..(RSteps - 1)}
NoDraw == [k |-> "none"]

\* Steps 4.3 and 4.4: "if a >= 1 ... accept the draw"; "if a < 1, then accept the
\* point with probability a: this can be done by drawing a uniform random number r
\* and checking if a < r".
MHAccept(a, r) ==
    IF a.n >= a.d THEN TRUE
    ELSE a.n * r.d < r.n * a.d

\* A chain that grows only when the point is accepted.
MHAppendAcceptedOnly(chain, prop, acc) == IF acc THEN Append(chain, prop) ELSE chain

\* Steps 4.3 and 4.4: "add theta_{i+1} to the chain"; "if not, then add theta_i to
\* the chain again".
MHAppend(chain, prop, acc) == Append(chain, IF acc THEN prop ELSE chain[Len(chain)])

\* ------------------------------------------------------ the MCMC notebook

\* The code cells of 03-Bayesian-Modeling-With-MCMC with define_stubs moved before
\* the second sampler run.
NotebookCellsStubsEarly ==
    <<"imports", "seaborn_help", "make_data", "define_posterior", "sampler_burn_in",
      "plot_chains", "define_stubs", "reset_and_run", "plot_chains", "corner", "plot_fit",
      "make_data_scatter", "comment", "comment", "comment", "comment", "comment">>

\* The code cells of 03-Bayesian-Modeling-With-MCMC, top to bottom.
NotebookCells ==
    <<"imports", "seaborn_help", "make_data", "define_posterior", "sampler_burn_in",
      "plot_chains", "reset_and_run", "plot_chains", "corner", "plot_fit",
      "make_data_scatter", "define_stubs", "comment", "comment", "comment", "comment",
      "comment">>

\* The cells that run the sampler.
SamplerCells == {"sampler_burn_in", "reset_and_run"}

\* The positions of the walkers, as one small number for the whole ensemble.
Positions == 0..2

\* x, y, dy = make_data(*theta_true) and x, y, dy = make_data_scatter(*theta), with
\* the defaults dy=5 and dy=2 of the two functions.
NotebookData == make_data(25, 1, MaxN, 5, 42)
NotebookScatterData == make_data_scatter(25, 1, 3, MaxN, 2, 42)

\* ------------------------------------------------------------- input sets

\* Arguments of the data generators.
Intercepts == {25}
Slopes == {1}
Scatters == {3}
Seeds == {42, 7}
\* Per-point noise scales, a zero and a negative one included.
DyVals == {-1, 0, 5, 40}
\* Noise scales and sample counts of the generator histories.
GenDyVals == {5}
GenNs == {0, MaxN}

\* slope_limits and intercept_limits of plot_results: inside the priors' bound,
\* across it and beyond it.
SlopeLimits == {<<-2, 5>>, <<0, 1>>, <<999, 1001>>, <<1000, 3000>>}
InterceptLimits == {<<15, 35>>, <<-300, 200>>, <<990, 1010>>, <<1000, 2000>>}

\* Components of the parameter vectors the priors are called on.
ThetaVals == {-1000, -999, 0, 5, 999, 1000, 1001}
Thetas == {<<b, m>> : b \in ThetaVals, m \in ThetaVals}
\* The parameter vectors log_likelihood is called on directly.
LikThetas == {<<25, 1>>, <<0, 0>>}

\* The density grids contour_levels is called on: one or two rows of GridN cells.
CellVals == {0, 1, 2, 5}
GridsOf(rows) == [1..rows -> [1..GridN -> {Fin(v) : v \in CellVals}]]
Grids == GridsOf(1) \cup GridsOf(2)

\* --------------------------------------------------------------- the state

NoPlot == [called |-> FALSE]
NoCall == [fn |-> "none"]
NoData == [x |-> <<>>, y |-> <<>>, dy |-> <<>>]
NoChain == [chain |-> <<>>, steps |-> <<>>]
\* The notebook before its first cell: pc cells executed, no name bound.  The fields
\* log_prior, log_likelihood and log_posterior name the cell whose def the global is
\* bound to; xy names the generator the globals x, y, dy come from.
NoNotebook ==
    [pc |-> 0, exc |-> "none",
     log_prior |-> "undefined", log_likelihood |-> "undefined", log_posterior |-> "undefined",
     xy |-> "undefined", sampler |-> [fn |-> "undefined"], pos |-> -1,
     running |-> FALSE, left |-> 0, cur |-> -1, runs |-> <<>>, evals |-> {}]

\* The notebook after its setup cells: x, y, dy = make_data(*theta_true).
InitData == make_data(25, 1, MaxN, 5, 42)

\* ----------------------------------------------------------------- actions

\* A cell x, y, dy = make_data(...).
MakeData ==
    \E a \in Intercepts, b \in Slopes, N \in 0..MaxN, dy \in DyVals, rseed \in Seeds :
        /\ data' = make_data(a, b, N, dy, rseed)
        /\ UNCHANGED <<gstate, calls, plot, cl, pri, mh, nb>>

\* A cell plot_results(x, y, dy, slope_limits=..., intercept_limits=...).  A behaviour
\* holds one call: a call computes from its arguments alone, and a later call would
\* overwrite every local this record holds.
PlotResults ==
    \E sl \in SlopeLimits, il \in InterceptLimits :
        /\ ~plot.called
        /\ plot' = plot_results(data, sl, il)
        /\ UNCHANGED <<gstate, calls, data, cl, pri, mh, nb>>

\* A call of one of the prior functions, or of log_posterior with the globals x, y, dy.
\* A behaviour holds one such call: the functions are pure, and a later call would
\* overwrite the record of this one.
CallLogFlatPrior ==
    \E theta \in Thetas :
        /\ pri.fn = "none"
        /\ pri' = [fn |-> "log_flat_prior", theta |-> theta,
                   ret |-> log_flat_prior(theta), exc |-> "none"]
        /\ UNCHANGED <<gstate, calls, data, plot, cl, mh, nb>>

CallLogPrior ==
    \E theta \in Thetas :
        /\ pri.fn = "none"
        /\ pri' = [fn |-> "log_prior", theta |-> theta,
                   ret |-> log_prior(theta), exc |-> "none"]
        /\ UNCHANGED <<gstate, calls, data, plot, cl, mh, nb>>

CallLogSymmetricPrior ==
    \E theta \in Thetas :
        /\ pri.fn = "none"
        /\ pri' = [fn |-> "log_symmetric_prior", theta |-> theta,
                   ret |-> log_symmetric_prior(theta), exc |-> "none"]
        /\ UNCHANGED <<gstate, calls, data, plot, cl, mh, nb>>

CallLogPosterior ==
    \E theta \in Thetas :
        /\ pri.fn = "none"
        /\ pri' = [fn |-> "log_posterior", theta |-> theta,
                   ret |-> log_posterior(theta, data.x, data.y, data.dy), exc |-> "none"]
        /\ UNCHANGED <<gstate, calls, data, plot, cl, mh, nb>>

\* A call log_likelihood(theta, x, y, dy) with the globals x, y, dy.  The function
\* holds no raise statement, and numpy's division by zero and log of zero give
\* inf / nan with a warning, so no exception leaves it.
CallLogLikelihood ==
    \E theta \in LikThetas :
        /\ pri.fn = "none"
        /\ pri' = [fn |-> "log_likelihood", theta |-> theta, d |-> data,
                   ret |-> log_likelihood(theta, data.x, data.y, data.dy), exc |-> "none"]
        /\ UNCHANGED <<gstate, calls, data, plot, cl, mh, nb>>

\* A call contour_levels(grid) on the grid chosen initially.
ContourLevels ==
    /\ ~cl.called
    /\ cl' = [grid |-> cl.grid, called |-> TRUE, out |-> contour_levels(cl.grid)]
    /\ UNCHANGED <<gstate, calls, data, plot, pri, mh, nb>>

\* A call of a data generator, recorded in the history.
CallMakeData ==
    \E a \in Intercepts, b \in Slopes, N \in GenNs, dy \in GenDyVals, rseed \in Seeds :
        /\ Len(calls) < MaxCalls
        /\ data' = make_data(a, b, N, dy, rseed)
        /\ calls' = Append(calls, [fn |-> "make_data", args |-> <<a, b, N, dy, rseed>>,
                                   out |-> data'])
        /\ UNCHANGED <<gstate, plot, cl, pri, mh, nb>>

CallMakeDataScatter ==
    \E a \in Intercepts, b \in Slopes, sc \in Scatters, N \in GenNs, dy \in GenDyVals,
       rseed \in Seeds :
        /\ Len(calls) < MaxCalls
        /\ data' = make_data_scatter(a, b, sc, N, dy, rseed)
        /\ calls' = Append(calls, [fn |-> "make_data_scatter",
                                   args |-> <<a, b, sc, N, dy, rseed>>,
                                   out |-> data'])
        /\ UNCHANGED <<gstate, plot, cl, pri, mh, nb>>

\* starting_guesses = np.random.randn(nwalkers, ndim): nwalkers * ndim = 50 * 2 draws
\* from the global generator, recorded in the history.
GlobalDraw ==
    /\ Len(calls) < MaxCalls
    /\ gstate' = RandAfter(gstate, 50 * 2)
    /\ calls' = Append(calls, [fn |-> "np.random.randn", args |-> <<50, 2>>,
                               out |-> gstate'])
    /\ UNCHANGED <<data, plot, cl, pri, mh, nb>>

\* Step 3 of the Metropolis-Hastings procedure: the chain starts as theta_0.
ChooseStartingPoint ==
    /\ mh.chain = <<>>
    /\ mh' = [chain |-> <<Theta0>>, steps |-> <<>>]
    /\ UNCHANGED <<gstate, calls, data, plot, cl, pri, nb>>

\* One iteration of step 4: draw a new theta from the (symmetric) proposal density,
\* compute the acceptance ratio, draw r when a < 1, and add a point to the chain.
RepeatStep ==
    /\ mh.chain # <<>>
    /\ Len(mh.steps) < MaxIter
    /\ \E prop \in MHPoints :
        LET cur == mh.chain[Len(mh.chain)]
            a == AcceptanceRatio(prop, cur)
        IN  \E r \in (IF a.n >= a.d THEN {NoDraw} ELSE RDraws) :
                mh' = [chain |-> MHAppend(mh.chain, prop, MHAccept(a, r)),
                       steps |-> Append(mh.steps, [cur |-> cur, prop |-> prop, a |-> a,
                                                   r |-> r, acc |-> MHAccept(a, r)])]
    /\ UNCHANGED <<gstate, calls, data, plot, cl, pri, nb>>

\* A cell of the MCMC notebook that does not run the sampler, executed next in order.
RunCell ==
    /\ ~nb.running
    /\ nb.exc = "none"
    /\ nb.pc < Len(NotebookCells)
    /\ NotebookCells[nb.pc + 1] \notin SamplerCells
    /\ LET cell == NotebookCells[nb.pc + 1]
           done == [nb EXCEPT !.pc = nb.pc + 1]
       IN  CASE cell = "make_data" ->
                  /\ data' = NotebookData
                  /\ nb' = [done EXCEPT !.xy = "make_data"]
                  /\ UNCHANGED gstate
             [] cell = "define_posterior" ->
                  /\ nb' = [done EXCEPT !.log_prior = "cell_200", !.log_likelihood = "cell_200",
                                        !.log_posterior = "cell_200"]
                  /\ UNCHANGED <<gstate, data>>
             [] cell = "plot_fit" ->
                  /\ gstate' = RandAfter(gstate, 100)
                  /\ nb' = done
                  /\ UNCHANGED data
             [] cell = "make_data_scatter" ->
                  /\ data' = NotebookScatterData
                  /\ nb' = [done EXCEPT !.xy = "make_data_scatter"]
                  /\ UNCHANGED gstate
             [] cell = "define_stubs" ->
                  /\ nb' = [done EXCEPT !.log_prior = "cell_438", !.log_likelihood = "cell_438",
                                        !.log_posterior = "cell_438"]
                  /\ UNCHANGED <<gstate, data>>
             [] OTHER ->
                  /\ nb' = done
                  /\ UNCHANGED <<gstate, data>>
    /\ UNCHANGED <<calls, plot, cl, pri, mh>>

\* The statements of a sampler cell up to the loop of run_mcmc.  sampler_burn_in draws
\* starting_guesses from the global generator and creates the sampler, which keeps
\* the function object log_posterior is bound to and the arrays x, y, dy are bound
\* to at that moment; reset_and_run starts from the global pos.
StartRun ==
    /\ ~nb.running
    /\ nb.exc = "none"
    /\ nb.pc < Len(NotebookCells)
    /\ NotebookCells[nb.pc + 1] \in SamplerCells
    /\ IF NotebookCells[nb.pc + 1] = "sampler_burn_in"
       THEN /\ gstate' = RandAfter(gstate, 50 * 2)
            /\ nb' = [nb EXCEPT !.sampler = [fn |-> nb.log_posterior, xy |-> nb.xy, args |-> data],
                                !.running = TRUE, !.left = BurnSteps,
                                !.cur = gstate' % Cardinality(Positions),
                                !.runs = Append(nb.runs, [start |-> gstate' % Cardinality(Positions),
                                                          steps |-> 0, final |-> -1])]
       ELSE /\ gstate' = gstate
            /\ nb' = [nb EXCEPT !.running = TRUE, !.left = RunSteps,
                                !.cur = nb.pos,
                                !.runs = Append(nb.runs, [start |-> nb.pos,
                                                          steps |-> 0, final |-> -1])]
    /\ UNCHANGED <<calls, data, plot, cl, pri, mh>>

\* One step of run_mcmc: the sampler calls its function on a proposed position.  The
\* names log_prior and log_likelihood in the body of log_posterior are looked up
\* among the globals at the time of the call; a stub returns None, and None + None
\* raises TypeError.
SamplerStep ==
    /\ nb.running
    /\ nb.left > 0
    /\ \E prop \in Positions, acc \in BOOLEAN :
        LET eval == [run |-> Len(nb.runs), fn |-> nb.sampler.fn, prior |-> nb.log_prior,
                     lik |-> nb.log_likelihood, xy |-> nb.sampler.xy, d |-> nb.sampler.args]
            n == Len(nb.runs)
        IN  IF nb.sampler.fn = "cell_200" /\ nb.log_prior = "cell_200"
                                          /\ nb.log_likelihood = "cell_200"
            THEN nb' = [nb EXCEPT !.evals = nb.evals \cup {eval},
                                  !.cur = IF acc THEN prop ELSE nb.cur,
                                  !.left = nb.left - 1,
                                  !.runs[n].steps = nb.runs[n].steps + 1]
            ELSE nb' = [nb EXCEPT !.evals = nb.evals \cup {eval},
                                  !.exc = IF nb.sampler.fn = "undefined" THEN "NameError"
                                          ELSE "TypeError",
                                  !.running = FALSE]
    /\ UNCHANGED <<gstate, calls, data, plot, cl, pri, mh>>

\* The end of a sampler cell: pos, prob, state = the result of run_mcmc.
FinishRun ==
    /\ nb.running
    /\ nb.left = 0
    /\ nb' = [nb EXCEPT !.pos = nb.cur, !.running = FALSE, !.pc = nb.pc + 1,
                        !.runs[Len(nb.runs)].final = nb.cur]
    /\ UNCHANGED <<gstate, calls, data, plot, cl, pri, mh>>

\* ---------------------------------------------------------- specifications

\* The grid evaluation: the data cells and plot_results.
Init ==
    /\ gstate = 0
    /\ calls = <<>>
    /\ data = InitData
    /\ plot = NoPlot
    /\ cl = [grid |-> <<>>, called |-> FALSE]
    /\ pri = NoCall
    /\ mh = NoChain
    /\ nb = NoNotebook

Next ==
    \/ MakeData
    \/ PlotResults

Spec == Init /\ [][Next]_vars

\* The prior and posterior functions on every small theta, over the notebook's data.
NextPrior ==
    \/ MakeData
    \/ CallLogFlatPrior
    \/ CallLogPrior
    \/ CallLogSymmetricPrior
    \/ CallLogPosterior
    \/ CallLogLikelihood

SpecPrior == Init /\ [][NextPrior]_vars

\* contour_levels on every small grid of non-negative cells.
InitCL ==
    /\ gstate = 0
    /\ calls = <<>>
    /\ data = NoData
    /\ plot = NoPlot
    /\ cl \in {[grid |-> g, called |-> FALSE] : g \in Grids}
    /\ pri = NoCall
    /\ mh = NoChain
    /\ nb = NoNotebook

NextCL == ContourLevels

SpecCL == InitCL /\ [][NextCL]_vars

\* The data generators beside the global generator.
InitGen ==
    /\ gstate = 0
    /\ calls = <<>>
    /\ data = NoData
    /\ plot = NoPlot
    /\ cl = [grid |-> <<>>, called |-> FALSE]
    /\ pri = NoCall
    /\ mh = NoChain
    /\ nb = NoNotebook

NextGen ==
    \/ CallMakeData
    \/ CallMakeDataScatter
    \/ GlobalDraw

SpecGen == InitGen /\ [][NextGen]_vars

\* The Metropolis-Hastings procedure of the MCMC notebook's text.
NextMH ==
    \/ ChooseStartingPoint
    \/ RepeatStep

SpecMH == Init /\ [][NextMH]_vars

\* The MCMC notebook executed top to bottom.
InitNB ==
    /\ gstate = 0
    /\ calls = <<>>
    /\ data = NoData
    /\ plot = NoPlot
    /\ cl = [grid |-> <<>>, called |-> FALSE]
    /\ pri = NoCall
    /\ mh = NoChain
    /\ nb = NoNotebook

NextNB ==
    \/ RunCell
    \/ StartRun
    \/ SamplerStep
    \/ FinishRun

SpecNB == InitNB /\ [][NextNB]_vars

\* ------------------------------------------------------------- properties

\* The cells of a 2D grid, as a set.
CellsOf(grid) == {grid[i][j] : i \in DOMAIN grid, j \in 1..GridN}

\* A density grid normalized to a peak of 1: every cell a finite number in [0, 1]
\* and some cell exactly 1.
PeakIsOne(P) ==
    /\ \A c \in CellsOf(P) : IsFin(c) /\ 0 <= c.v /\ c.v <= PScale
    /\ \E c \in CellsOf(P) : c = Fin(PScale)

\* C1: in plot_results, when at least one cell of the log-posterior grid is finite,
\* the normalized density grid has maximum exactly 1 and every cell is a finite
\* value in [0, 1] (for the flat-prior grid and for the symmetric-prior grid).
C1_NormalizedPeakIsOne ==
    plot.called =>
        /\ (\E c \in CellsOf(plot.log_P1) : IsFin(c)) => PeakIsOne(plot.P1)
        /\ (\E c \in CellsOf(plot.log_P2) : IsFin(c)) => PeakIsOne(plot.P2)

\* C1 happens: a grid with a finite cell and a rejected (-infinity) cell has been
\* normalized, and another density lies strictly between 0 and 1.
C1_Witness ==
    /\ plot.called
    /\ \E c \in CellsOf(plot.log_P1) : IsFin(c)
    /\ \E c \in CellsOf(plot.log_P1) : c = NegInf
    /\ \E c \in CellsOf(plot.P2) : IsFin(c) /\ 0 < c.v /\ c.v < PScale

\* C2: when every cell of the log-posterior grid is -infinity, plot_results reports
\* the degenerate input ("posterior grid empty") and no density grid of nan cells
\* reaches contour_levels.
C2_EmptyGridReported ==
    (plot.called /\ \A c \in CellsOf(plot.log_P1) : c = NegInf) =>
        /\ plot.exc = "posterior grid empty"
        /\ \A c \in CellsOf(plot.P1) : ~IsNaN(c)
        /\ \A j \in DOMAIN plot.lev1.levels : ~IsNaN(plot.lev1.levels[j])

\* The argument of the contour_levels call, flattened, as whole numbers.
ClCells == [i \in DOMAIN ravel(cl.grid) |-> ravel(cl.grid)[i].v]

\* The sum of a sequence of whole numbers.
RECURSIVE SumOf(_)
SumOf(s) == IF s = <<>> THEN 0 ELSE Head(s) + SumOf(Tail(s))

\* The mass fractions 0.68^2, 0.95^2 and 0.997^2 of the 1, 2 and 3-sigma levels.
MassFractions == <<Rat(4624, 10000), Rat(9025, 10000), Rat(994009, 1000000)>>

\* mass / total >= t, in exact arithmetic.
HoldsFraction(mass, total, t) == mass * t.d >= t.n * total

\* The number of times v occurs in s.
CountIn(s, v) == Cardinality({i \in DOMAIN s : s[i] = v})

\* s lists the cells of c in descending order.
IsDescendingOrderOf(s, c) ==
    /\ Len(s) = Len(c)
    /\ \A i \in DOMAIN c : CountIn(s, c[i]) = CountIn(c, c[i])
    /\ \A i \in 1..(Len(s) - 1) : s[i] >= s[i + 1]

\* s without its element at index i.
DropAt(s, i) == SubSeq(s, 1, i - 1) \o SubSeq(s, i + 1, Len(s))

\* The cells of c in ascending order: an arrangement that is the same for every
\* grid holding the same multiset of values.
RECURSIVE Ascending(_)
Ascending(c) ==
    IF c = <<>> THEN <<>>
    ELSE LET i == CHOOSE i \in DOMAIN c : \A j \in DOMAIN c : c[i] <= c[j]
         IN  <<c[i]>> \o Ascending(DropAt(c, i))

\* The total mass of the cells of c with value >= v.
MassAtLeast(c, v) == SumOf([i \in DOMAIN c |-> IF c[i] >= v THEN c[i] ELSE 0])

\* The contour_levels call was made on a grid of positive total mass.
ClNonDegenerate == cl.called /\ SumOf(ClCells) > 0

\* C3: for a grid of non-negative values with positive sum, contour_levels returns
\* for each target t the value sorted[k], where sorted is the grid's cells in
\* descending order and k is the smallest index whose cumulative fraction is >= t;
\* each threshold is a value of the grid, and the result is the one the ascending
\* arrangement of the same multiset of cells gives.
C3_LevelAtFirstIndexReachingTarget ==
    ClNonDegenerate =>
        LET o == cl.out
            sorted == [i \in DOMAIN o.sorted |-> o.sorted[i].v]
            total == SumOf(ClCells)
        IN  /\ o.exc = "none"
            /\ IsDescendingOrderOf(sorted, ClCells)
            /\ \A j \in 1..3 :
                LET k == o.cutoffs[j] + 1
                IN  /\ k \in DOMAIN sorted
                    /\ HoldsFraction(SumOf(SubSeq(sorted, 1, k)), total, MassFractions[j])
                    /\ \A i \in 1..(k - 1) :
                         ~HoldsFraction(SumOf(SubSeq(sorted, 1, i)), total, MassFractions[j])
                    /\ o.levels[j] = Fin(sorted[k])
                    /\ \E i \in DOMAIN ClCells : ClCells[i] = o.levels[j].v
            /\ o.levels =
                 contour_levels(<<[i \in DOMAIN ClCells |-> Fin(Ascending(ClCells)[i])]>>).levels

\* C3 happens: the grid has equal cells at the first cutoff (a tie) and the
\* cutoffs are not all the same index.
C3_Witness ==
    /\ ClNonDegenerate
    /\ cl.out.exc = "none"
    /\ cl.out.cutoffs[1] + 2 \in DOMAIN cl.out.sorted
    /\ cl.out.sorted[cl.out.cutoffs[1] + 1] = cl.out.sorted[cl.out.cutoffs[1] + 2]
    /\ cl.out.cutoffs[1] < cl.out.cutoffs[3]

C5_LevelsNonIncreasing ==
    ClNonDegenerate =>
        /\ cl.out.exc = "none"
        /\ cl.out.levels[1].v >= cl.out.levels[2].v
        /\ cl.out.levels[2].v >= cl.out.levels[3].v

\* C5 happens: the three thresholds are three different values.
C5_Witness ==
    /\ ClNonDegenerate
    /\ cl.out.exc = "none"
    /\ cl.out.levels[1].v > cl.out.levels[2].v
    /\ cl.out.levels[2].v > cl.out.levels[3].v

\* C6: on an all-zero grid contour_levels either rejects the input with an error,
\* or returns the grid's maximum as a degenerate threshold; it does not return
\* values computed from an undefined (0/0) cumulative-fraction array.
C6_ZeroGridRejectedOrDefined ==
    (cl.called /\ \A i \in DOMAIN ClCells : ClCells[i] = 0) =>
        \/ cl.out.exc # "none"
        \/ /\ \A j \in 1..3 : cl.out.levels[j] = Fin(0)
           /\ \A i \in DOMAIN cl.out.pct : ~IsNaN(cl.out.pct[i])

\* Every component of theta has absolute value strictly below 1000.
InsideBound(theta) == \A k \in DOMAIN theta : -1000 < theta[k] /\ theta[k] < 1000

\* C7: the flat log-prior (log_flat_prior of Solutions-02, log_prior of the MCMC
\* notebook) returns 0 if and only if every component of theta is strictly inside
\* (-1000, 1000) and -infinity otherwise; a component of exactly 1000 or -1000 is
\* rejected, [999, 5] gives 0, [1001, 5] gives -infinity, and the two definitions
\* agree.
C7_FlatPriorStrictBound ==
    pri.fn \in {"log_flat_prior", "log_prior"} =>
        /\ pri.exc = "none"
        /\ pri.ret = Fin(0) <=> InsideBound(pri.theta)
        /\ ~InsideBound(pri.theta) => pri.ret = NegInf
        /\ (\E k \in DOMAIN pri.theta : pri.theta[k] \in {1000, -1000}) => pri.ret = NegInf
        /\ pri.theta = <<999, 5>> => pri.ret = Fin(0)
        /\ pri.theta = <<1001, 5>> => pri.ret = NegInf
        /\ log_flat_prior(pri.theta) = log_prior(pri.theta)

\* C7 happens: log_prior was called with a component of exactly 1000.
C7_Witness ==
    /\ pri.fn = "log_prior"
    /\ pri.theta = <<1000, 5>>
    /\ pri.ret = NegInf

\* C8: log_symmetric_prior(theta) is -infinity if and only if |theta[0]| >= 1000,
\* whatever the slope is; otherwise it is a finite value <= 0 that depends only on
\* the slope and is 0 at slope 0.
C8_SymmetricPriorBoundsInterceptOnly ==
    pri.fn = "log_symmetric_prior" =>
        LET b == pri.theta[1]
            m == pri.theta[2]
        IN  /\ pri.ret = NegInf <=> (b >= 1000 \/ b <= -1000)
            /\ (-1000 < b /\ b < 1000) =>
                 /\ IsFin(pri.ret)
                 /\ pri.ret.v <= 0
                 /\ m = 0 => pri.ret = Fin(0)
                 /\ \A b2 \in ThetaVals :
                      (-1000 < b2 /\ b2 < 1000) => log_symmetric_prior(<<b2, m>>) = pri.ret

\* C8 happens: the symmetric prior was called with an accepted intercept and a
\* slope the flat prior rejects.
C8_Witness ==
    /\ pri.fn = "log_symmetric_prior"
    /\ pri.theta = <<5, 1001>>
    /\ IsFin(pri.ret)
    /\ pri.ret.v < 0

\* C9: a theta outside the prior's support is a normal outcome: the priors return
\* 0 / a finite value or -infinity and nothing raises; for such a theta
\* log_posterior (and the cell of the log-posterior grid) is -infinity whenever
\* the likelihood is finite, and in a grid with a finite cell its density is 0.
C9_RejectedThetaIsZeroDensity ==
    plot.called =>
        /\ plot.exc = "none"
        /\ \A i \in 1..GridN, j \in 1..GridN :
            LET theta == <<plot.intercept_range[i], plot.slope_range[j]>>
                ll == log_likelihood(theta, plot.d.x, plot.d.y, plot.d.dy)
            IN  /\ log_flat_prior(theta) \in {Fin(0), NegInf}
                /\ log_prior(theta) \in {Fin(0), NegInf}
                /\ IsFin(log_symmetric_prior(theta)) \/ log_symmetric_prior(theta) = NegInf
                /\ (~InsideBound(theta) /\ IsFin(ll)) =>
                     /\ log_posterior(theta, plot.d.x, plot.d.y, plot.d.dy) = NegInf
                     /\ plot.log_P1[i][j] = NegInf
                     /\ (\E c \in CellsOf(plot.log_P1) : IsFin(c)) => plot.P1[i][j] = Fin(0)
                /\ (~InsideBound(<<theta[1]>>) /\ IsFin(ll)) =>
                     /\ plot.log_P2[i][j] = NegInf
                     /\ (\E c \in CellsOf(plot.log_P2) : IsFin(c)) => plot.P2[i][j] = Fin(0)

\* C9 happens: a grid holds a cell outside the flat prior's support at which the
\* likelihood is finite, beside a cell of finite log-posterior.
C9_Witness ==
    /\ plot.called
    /\ \E c \in CellsOf(plot.log_P1) : IsFin(c)
    /\ \E i \in 1..GridN, j \in 1..GridN :
         /\ ~InsideBound(<<plot.intercept_range[i], plot.slope_range[j]>>)
         /\ IsFin(log_likelihood(<<plot.intercept_range[i], plot.slope_range[j]>>,
                                 plot.d.x, plot.d.y, plot.d.dy))
         /\ plot.P1[i][j] = Fin(0)

\* The events of the history that are generator calls.
GeneratorCalls == {i \in DOMAIN calls : calls[i].fn \in {"make_data", "make_data_scatter"}}

\* The events of the history that are draws from the global generator.
GlobalDraws == {i \in DOMAIN calls : calls[i].fn = "np.random.randn"}

\* C10: make_data and make_data_scatter are deterministic functions of their
\* arguments: two calls with identical arguments return identical (x, y, sigma),
\* whatever calls with other seeds and draws from the global generator happen in
\* between; and the generator calls leave the global generator where the global
\* draws alone put it.
C10_GeneratorsDeterministic ==
    /\ \A i \in GeneratorCalls, j \in GeneratorCalls :
         (calls[i].fn = calls[j].fn /\ calls[i].args = calls[j].args) =>
             calls[i].out = calls[j].out
    /\ gstate = RandAfter(0, 100 * Cardinality(GlobalDraws))

\* C10 happens: a generator was called twice with the same arguments and a
\* non-empty result, with a global draw and a call with another seed in between.
C10_Witness ==
    \E i \in GeneratorCalls, j \in GeneratorCalls :
        /\ i < j
        /\ calls[i].fn = calls[j].fn
        /\ calls[i].args = calls[j].args
        /\ calls[i].out.x # <<>>
        /\ \E k \in GlobalDraws : i < k /\ k < j
        /\ \E k \in GeneratorCalls :
             /\ i < k /\ k < j
             /\ calls[k].fn = calls[i].fn
             /\ calls[k].out # calls[i].out

\* The sample count N and the noise scale dy a generator call was given.
ArgN(c) == IF c.fn = "make_data" THEN c.args[3] ELSE c.args[4]
ArgDy(c) == IF c.fn = "make_data" THEN c.args[4] ELSE c.args[5]

\* C11: for every sample count N passed in, make_data and make_data_scatter return
\* three sequences x, y, sigma of length exactly N each, and every sigma entry is the
\* given noise scale dy.
C11_GeneratorsReturnNTriples ==
    \A i \in GeneratorCalls :
        /\ Len(calls[i].out.x) = ArgN(calls[i])
        /\ Len(calls[i].out.y) = ArgN(calls[i])
        /\ Len(calls[i].out.dy) = ArgN(calls[i])
        /\ \A k \in DOMAIN calls[i].out.dy : calls[i].out.dy[k] = ArgDy(calls[i])

\* The parameter vector [b, m] of cell [i][j] of the last plot_results call.
CellTheta(i, j) == <<plot.intercept_range[i], plot.slope_range[j]>>

\* plot_results was called on an empty observation set.
PlotOfNoData == plot.called /\ plot.d.x = <<>>

\* What C12 states about the generator, the likelihood and the flat-prior grid: N = 0
\* gives three empty sequences, the likelihood of no observation is 0 for every theta,
\* and every cell inside the flat prior's bound has density 1.
EmptyDataFlatPart ==
    /\ \A a \in Intercepts, b \in Slopes, dy \in DyVals, rseed \in Seeds :
         make_data(a, b, 0, dy, rseed) = NoData
    /\ PlotOfNoData =>
         /\ plot.d = NoData
         /\ plot.exc = "none"
         /\ \A i \in 1..GridN, j \in 1..GridN :
              /\ log_likelihood(CellTheta(i, j), plot.d.x, plot.d.y, plot.d.dy) = Fin(0)
              /\ InsideBound(CellTheta(i, j)) => plot.P1[i][j] = Fin(PScale)

\* C12 as stated: with N = 0 the generator returns three empty sequences,
\* log_likelihood is 0 for every theta, every in-bound cell of the flat-prior grid
\* has density 1, and under the symmetric prior the density of a cell depends only
\* on its slope.
C12_EmptyDataDensityDependsOnSlopeOnly ==
    /\ EmptyDataFlatPart
    /\ PlotOfNoData =>
         \A i \in 1..GridN, k \in 1..GridN, j \in 1..GridN : plot.P2[i][j] = plot.P2[k][j]

\* C12, amended: as C12, but under the symmetric prior the density depends only on
\* the slope among the cells whose intercept is inside the bound; a cell whose
\* intercept is outside it has density 0 beside them.
C12_EmptyDataFallsBackToPrior ==
    /\ EmptyDataFlatPart
    /\ PlotOfNoData =>
         \A i \in 1..GridN, k \in 1..GridN, j \in 1..GridN :
             /\ (InsideBound(<<plot.intercept_range[i]>>) /\ InsideBound(<<plot.intercept_range[k]>>))
                  => plot.P2[i][j] = plot.P2[k][j]
             /\ (InsideBound(<<plot.intercept_range[i]>>) /\ ~InsideBound(<<plot.intercept_range[k]>>))
                  => plot.P2[k][j] = Fin(0)

\* C12 happens: an empty observation set was plotted over a grid with intercepts on
\* both sides of the bound, an in-bound flat cell has density 1, and the symmetric
\* densities of two slopes differ.
C12_Witness ==
    /\ PlotOfNoData
    /\ \E i \in 1..GridN, k \in 1..GridN :
         /\ InsideBound(<<plot.intercept_range[i]>>)
         /\ ~InsideBound(<<plot.intercept_range[k]>>)
         /\ plot.P1[i][1] = Fin(PScale)
         /\ IsFin(plot.P2[i][1]) /\ IsFin(plot.P2[i][2])
         /\ plot.P2[i][1] # plot.P2[i][2]

\* C13: if an observation has measurement uncertainty sigma_i <= 0, log_likelihood
\* surfaces a domain error to the caller rather than returning a numeric value.
C13_NonPositiveSigmaIsDomainError ==
    (pri.fn = "log_likelihood" /\ \E i \in DOMAIN pri.d.dy : pri.d.dy[i] <= 0) =>
        pri.exc # "none"

\* C14: plot_results evaluates both priors over the same grid and observations: cell
\* [i][j] of log_P1 and of log_P2 is log_likelihood([b_i, m_j], x, y, dy) plus the flat
\* and the symmetric log-prior of [b_i, m_j], b_i the i-th intercept sample and m_j
\* the j-th slope sample; each grid holds one cell per pair of intercept_range x
\* slope_range, the first index being the intercept.
C14_BothGridsOverSameCells ==
    plot.called =>
        /\ Len(plot.intercept_range) = GridN /\ Len(plot.slope_range) = GridN
        /\ DOMAIN plot.log_P1 = 1..GridN /\ DOMAIN plot.log_P2 = 1..GridN
        /\ \A i \in 1..GridN :
            /\ DOMAIN plot.log_P1[i] = 1..GridN /\ DOMAIN plot.log_P2[i] = 1..GridN
            /\ \A j \in 1..GridN :
                LET theta == <<plot.intercept_range[i], plot.slope_range[j]>>
                    ll == log_likelihood(theta, plot.d.x, plot.d.y, plot.d.dy)
                IN  /\ plot.log_P1[i][j] = FAdd(ll, log_flat_prior(theta))
                    /\ plot.log_P2[i][j] = FAdd(ll, log_symmetric_prior(theta))

\* C14 happens: a grid over observations in which exchanging the two indices would
\* change the cells, and in which the two priors give different finite cells.
C14_Witness ==
    /\ plot.called
    /\ plot.d.x # <<>>
    /\ IsFin(plot.log_P2[1][2]) /\ IsFin(plot.log_P2[2][1])
    /\ plot.log_P2[1][2] # plot.log_P2[2][1]
    /\ IsFin(plot.log_P1[1][2])
    /\ plot.log_P1[1][2] # plot.log_P2[1][2]

\* C15: in plot_results the contour levels drawn over each density grid come from
\* that grid: contour_levels(P1) over P1 and contour_levels(P2) over P2.
C15_LevelsFromOwnGrid ==
    plot.called =>
        /\ plot.lev1.levels = contour_levels(plot.P1).levels
        /\ plot.lev2.levels = contour_levels(plot.P2).levels

\* C18: for a non-empty grid of non-negative cells with positive sum, the cumulative
\* fractions built by contour_levels are non-decreasing and end at exactly 1, so each
\* of the three cutoffs is an index of sorted_ and sorted_[cutoffs] stays in range.
C18_CutoffsInRange ==
    ClNonDegenerate =>
        LET o == cl.out
            n == Len(o.sorted)
        IN  /\ n = Len(ClCells) /\ n > 0
            /\ Len(o.pct) = n
            /\ \A i \in 1..n : o.pct[i].k = "fin" /\ o.pct[i].d > 0
            /\ \A i \in 1..(n - 1) : o.pct[i].n * o.pct[i + 1].d <= o.pct[i + 1].n * o.pct[i].d
            /\ o.pct[n].n = o.pct[n].d
            /\ \A j \in 1..3 : o.cutoffs[j] \in 0..(n - 1)
            /\ o.exc = "none"
            /\ Len(o.levels) = 3

\* C18 happens: on a grid of two rows the 3-sigma cutoff is the last index of sorted_
\* and the 1-sigma cutoff is an earlier one.
C18_Witness ==
    /\ ClNonDegenerate
    /\ Len(cl.out.sorted) = 2 * GridN
    /\ cl.out.exc = "none"
    /\ cl.out.cutoffs[3] = Len(cl.out.sorted) - 1
    /\ cl.out.cutoffs[1] < cl.out.cutoffs[3]

\* The index pairs of the cells of a grid of plot_results.
CellIds == (1..GridN) \X (1..GridN)

\* Every cell of the log-posterior grid is a finite number.
AllFinite(log_P) == \A a \in CellIds : IsFin(log_P[a[1]][a[2]])

\* P[a] >= P[b] exactly when log_P[a] >= log_P[b], for all cells a, b.
OrderPreserved(log_P, P) ==
    \A a \in CellIds, b \in CellIds :
        (P[a[1]][a[2]].v >= P[b[1]][b[2]].v) <=> (log_P[a[1]][a[2]].v >= log_P[b[1]][b[2]].v)

\* log_P[a] >= log_P[b] implies P[a] >= P[b], and the cells of density 1 are the cells
\* of maximum log-posterior.
OrderKept(log_P, P) ==
    /\ \A a \in CellIds, b \in CellIds :
         (log_P[a[1]][a[2]].v >= log_P[b[1]][b[2]].v) => (P[a[1]][a[2]].v >= P[b[1]][b[2]].v)
    /\ \A a \in CellIds :
         P[a[1]][a[2]] = Fin(PScale) <=>
             \A b \in CellIds : log_P[a[1]][a[2]].v >= log_P[b[1]][b[2]].v

\* The weighted residual sum over the observations of (y_i - (b + m*x_i))^2 / sigma_i^2
\* at cell a, as the source computes its terms.
WeightedResidual(a) ==
    FSum([i \in 1..Len(plot.d.x) |->
        FDiv(SqResidual(CellTheta(a[1], a[2]), plot.d.x[i], plot.d.y[i]),
             FMul(Fin(plot.d.dy[i]), Fin(plot.d.dy[i])))])

\* plot_results was called on observations with positive sigma over a grid inside the
\* flat prior's bound.
PlotInsideBound ==
    /\ plot.called
    /\ plot.d.x # <<>>
    /\ \A i \in DOMAIN plot.d.dy : plot.d.dy[i] > 0
    /\ \A a \in CellIds : InsideBound(CellTheta(a[1], a[2]))

\* The peak of the flat-prior density grid is at the cells minimizing the weighted
\* residual sum.
PeakMinimizesResidual ==
    PlotInsideBound =>
        \A a \in CellIds :
            plot.P1[a[1]][a[2]] = Fin(PScale) <=>
                \A b \in CellIds : IsFin(WeightedResidual(a)) /\ IsFin(WeightedResidual(b))
                                    /\ WeightedResidual(a).v <= WeightedResidual(b).v

C16_ChainGrowsByOnePerIteration ==
    mh.chain # <<>> =>
        /\ Len(mh.chain) = Len(mh.steps) + 1
        /\ mh.chain[1] = Theta0
        /\ \A i \in DOMAIN mh.steps :
             /\ mh.steps[i].cur = mh.chain[i]
             /\ mh.chain[i + 1] = IF mh.steps[i].acc THEN mh.steps[i].prop ELSE mh.chain[i]
        /\ \A i \in DOMAIN mh.chain :
             \/ mh.chain[i] = Theta0
             \/ \E k \in DOMAIN mh.steps :
                  k < i /\ mh.steps[k].acc /\ mh.steps[k].prop = mh.chain[i]

\* C16 happens: MaxIter iterations were made, one accepted a proposal that moved the
\* chain and a later one rejected its proposal and repeated the last element.
C16_Witness ==
    /\ Len(mh.steps) = MaxIter
    /\ \E i \in DOMAIN mh.steps, j \in DOMAIN mh.steps :
         /\ i < j
         /\ mh.steps[i].acc /\ mh.steps[i].prop # mh.steps[i].cur
         /\ ~mh.steps[j].acc /\ mh.steps[j].prop # mh.steps[j].cur
         /\ mh.chain[j + 1] = mh.chain[j]

\* C17: a proposal with acceptance ratio a >= 1 is always accepted, and for a < 1 the
\* stated test accepts the proposal for exactly a fraction a of the values of the
\* uniform random number r.
C17_AcceptedWithProbabilityA ==
    \A i \in DOMAIN mh.steps :
        LET a == mh.steps[i].a
        IN  /\ a.n >= a.d => mh.steps[i].acc
            /\ a.n < a.d =>
                 Cardinality({r \in RDraws : MHAccept(a, r)}) * a.d = a.n * Cardinality(RDraws)

\* C20: with the MCMC notebook's cells executed top to bottom, every evaluation of
\* log_posterior made by the two sampler runs resolves log_prior and log_likelihood
\* to the definitions of the 'Defining our Posterior' cell and uses the make_data
\* observations; the cells that rebind x, y, dy and the three functions execute only
\* after the last sampler run; and the second run starts from the final positions of
\* the first.
C20_SamplerUsesFirstDefinitions ==
    /\ nb.exc = "none"
    /\ \A e \in nb.evals :
         /\ e.run \in {1, 2}
         /\ e.fn = "cell_200" /\ e.prior = "cell_200" /\ e.lik = "cell_200"
         /\ e.xy = "make_data" /\ e.d = NotebookData
    /\ (nb.xy = "make_data_scatter" \/ "cell_438" \in {nb.log_prior, nb.log_likelihood,
                                                       nb.log_posterior}) =>
         /\ ~nb.running
         /\ Len(nb.runs) = 2
         /\ nb.runs[1].steps = BurnSteps /\ nb.runs[2].steps = RunSteps
    /\ Len(nb.runs) <= 2
    /\ Len(nb.runs) = 2 => (nb.runs[1].final \in Positions /\ nb.runs[2].start = nb.runs[1].final)

\* C20 happens: the whole notebook was executed, both runs evaluated log_posterior,
\* the first run moved the walkers, and the stubs are bound at the end.
C20_Witness ==
    /\ nb.pc = Len(NotebookCells)
    /\ \E e \in nb.evals : e.run = 1
    /\ \E e \in nb.evals : e.run = 2
    /\ nb.runs[1].final # nb.runs[1].start
    /\ nb.runs[2].start = nb.runs[1].final
    /\ nb.log_prior = "cell_438"
    /\ nb.xy = "make_data_scatter"

====
